---- MODULE Spec2Model ----
(***************************************************************************)
(* Model of the multi-threaded web crawler of src/web_crawler.cpp:         *)
(*   - URLQueue  : urls (FIFO), seen (dedup set), done (shutdown flag),    *)
(*                 mtx (std::mutex) and cv (std::condition_variable);      *)
(*   - WebCrawler: running, pagesProcessed, the workers vector, and the    *)
(*                 worker threads running worker()/crawlPage();            *)
(*   - the caller thread (main) that calls start() and stop().             *)
(* Every atomic step of the model is one atomic load/store, one mutex      *)
(* acquisition, or one critical section up to the release of the mutex.    *)
(***************************************************************************)
EXTENDS Integers, Sequences, FiniteSets, TLC

\* ------------------------------------------------------------------ bounds
MaxThreads == 2      \* threadCount is drawn from 1..MaxThreads
MaxCalls   == 3      \* number of start()/stop() calls the caller makes
MaxWorkers == 2      \* cap on the length of the workers vector

\* ------------------------------------------------------------- environment
\* URL strings the crawl can meet.
URLs == {"a", "b", "c"}

\* What curl_easy_perform + extractLinks yield for a page: the links of the
\* page in document order.  "a" links to "b" and back to itself, "b" links
\* back to "a" and on to "c", "c" has no links.
Links(url) ==
    CASE url = "a" -> <<"b", "a">>
      [] url = "b" -> <<"a", "c">>
      [] OTHER     -> << >>

\* Results of curl_easy_perform.  "ok" and "http_error" are both CURLE_OK
\* (the transfer completed; CURLOPT_FAILONERROR is not set), the others are
\* transport-level failures.
FetchResults == {"ok", "http_error", "net_error", "timeout"}

CURLE_OK(res) == res \in {"ok", "http_error"}

\* Thread identities for the mutex: the caller, or a position in workers.
Caller == 0
Free   == -1

VARIABLES
    urls,            \* URLQueue::urls   : sequence of URLs
    seen,            \* URLQueue::seen   : set of URLs
    done,            \* URLQueue::done
    mtx,             \* URLQueue::mtx    : Free, Caller or a worker index
    workers,         \* WebCrawler::workers : sequence of thread records
    running,         \* WebCrawler::running
    pagesProcessed,  \* WebCrawler::pagesProcessed
    threadCount,     \* WebCrawler::threadCount
    caller,          \* the caller thread: [pc, arg, i]
    accepted,        \* history: the URLs push appended to urls, in that order
    popCount,        \* history: how often pop returned each URL with true
    drained,         \* history: number of pops that returned true while done
    failed,          \* history: URLs whose fetch was not CURLE_OK
    seeds,           \* history: arguments of the start() calls so far
    stops,           \* history: number of stop() calls begun so far
    lastOp           \* history: last lifecycle call that returned

vars == <<urls, seen, done, mtx, workers, running, pagesProcessed,
          threadCount, caller, accepted, popCount, drained, failed, seeds, stops, lastOp>>

queueVars == <<urls, seen, done, accepted>>
histVars  == <<popCount, drained, failed, seeds, stops, lastOp>>

\* A freshly constructed std::thread running WebCrawler::worker.
\* httpError is history: the transfer that has just returned was CURLE_OK but
\* carried a non-success HTTP status; late is history: the number of transfers
\* the thread performed while running was false.
NewThread == [pc |-> "loop", url |-> "", links |-> << >>, httpError |-> FALSE,
              late |-> 0]

Init ==
    /\ urls = << >>
    /\ seen = {}
    /\ done = FALSE
    /\ mtx = Free
    /\ workers = << >>
    /\ running = FALSE
    /\ pagesProcessed = 0
    /\ threadCount \in 1..MaxThreads
    /\ caller = [pc |-> "idle", arg |-> "", i |-> 0]
    /\ accepted = << >>
    /\ popCount = [u \in URLs |-> 0]
    /\ drained = 0
    /\ failed = {}
    /\ seeds = << >>
    /\ stops = 0
    /\ lastOp = "none"

\* ------------------------------------------------------------ URLQueue

\* Workers blocked inside cv.wait.
Waiting(ws) == {i \in 1..Len(ws) : ws[i].pc = "wait"}

\* cv.notify_one(): the possible worker vectors afterwards.  One waiting
\* thread (any of them) is unblocked and has to reacquire the mutex; with
\* no waiting thread the call does nothing.
NotifyOne(ws) ==
    IF Waiting(ws) = {} THEN {ws}
    ELSE {[ws EXCEPT ![i].pc = "pop"] : i \in Waiting(ws)}

\* cv.notify_all(): every waiting thread is unblocked.
NotifyAll(ws) ==
    [i \in 1..Len(ws) |-> IF ws[i].pc = "wait" THEN [ws[i] EXCEPT !.pc = "pop"]
                          ELSE ws[i]]

\* Mutant of pushAccepts: the duplicate test is missing.
pushAcceptsAlways(url) == TRUE

\* Mutant of pushAccepts: duplicates are looked for in the queue, not in seen.
pushAcceptsUnlessQueued(url) == \A k \in 1..Len(urls) : urls[k] # url

\* push, line 50: the URL is accepted iff it has not been seen.
pushAccepts(url) == url \notin seen

\* Mutant of enqueue: the URL is put in front of the queue.
enqueueFront(q, url) == <<url>> \o q

\* push, line 51: std::queue::push puts the URL at the back.
enqueue(q, url) == Append(q, url)

\* push, lines 50-54, executed with the mutex held; ws is the workers vector
\* with the pushing thread's own bookkeeping already applied.
push(url, ws) ==
    IF pushAccepts(url)
    THEN /\ urls' = enqueue(urls, url)
         /\ seen' = seen \cup {url}
         /\ accepted' = Append(accepted, url)
         /\ workers' \in NotifyOne(ws)
    ELSE /\ UNCHANGED <<urls, seen, accepted>>
         /\ workers' = ws

\* Mutant of waitPredicate: pending URLs are not part of the predicate.
waitPredicateDoneOnly == done

\* Mutant of waitPredicate: the shutdown flag is not part of the predicate.
waitPredicateNoDone == urls # << >>

\* pop, line 60: the predicate cv.wait waits for.
waitPredicate == urls # << >> \/ done

\* Mutant of popReturnsFalse: a closed queue discards what is pending.
popReturnsFalseWhenDone == done

\* pop, line 61: the test that makes pop return false.
popReturnsFalse == urls = << >> /\ done

\* Mutant of finishDone: finish toggles the flag instead of setting it.
finishDoneToggles == ~done

\* finish, line 70: the value stored into done.
finishDone == TRUE

\* ------------------------------------------------------- WebCrawler::worker

\* Mutant of loopContinues: the test of running is inverted.
loopContinuesInverted == ~running

\* Mutant of loopContinues: the worker does not enter its loop.
loopContinuesNever == FALSE

\* worker, line 164, left operand of &&: the atomic load of running decides
\* whether pop is called at all.
loopContinues == running

WorkerLoop(i) ==
    /\ i \in 1..Len(workers)
    /\ workers[i].pc = "loop"
    /\ workers' = [workers EXCEPT ![i].pc = IF loopContinues THEN "pop" ELSE "exited"]
    /\ UNCHANGED <<queueVars, mtx, running, pagesProcessed, threadCount, caller, histVars>>

\* pop, line 59 (and the reacquisition of the mutex when cv.wait wakes up).
PopLock(i) ==
    /\ i \in 1..Len(workers)
    /\ workers[i].pc = "pop"
    /\ mtx = Free
    /\ mtx' = i
    /\ workers' = [workers EXCEPT ![i].pc = "pop_cs"]
    /\ UNCHANGED <<queueVars, running, pagesProcessed, threadCount, caller, histVars>>

\* Mutant of popUnlock: pop returns with the mutex still held by the worker.
popUnlockMissing(i) == i

\* pop, line 65: the unique_lock is destroyed when pop returns (and cv.wait,
\* line 60, releases the mutex while the worker is blocked).
popUnlock(i) == Free

\* pop, lines 60-64, with the mutex held: wait (releasing the mutex), return
\* false, or take the front URL and return true.  Returning false ends the
\* worker's loop (line 164), returning true enters crawlPage (line 166).
PopBody(i) ==
    /\ i \in 1..Len(workers)
    /\ workers[i].pc = "pop_cs"
    /\ mtx' = popUnlock(i)
    /\ IF ~waitPredicate
       THEN /\ workers' = [workers EXCEPT ![i].pc = "wait"]
            /\ UNCHANGED <<urls, popCount, drained>>
       ELSE IF popReturnsFalse
       THEN /\ workers' = [workers EXCEPT ![i].pc = "exited"]
            /\ UNCHANGED <<urls, popCount, drained>>
       ELSE /\ workers' = [workers EXCEPT ![i].pc = "fetch", ![i].url = Head(urls)]
            /\ urls' = Tail(urls)
            /\ popCount' = [popCount EXCEPT ![Head(urls)] = @ + 1]
            /\ drained' = IF done THEN drained + 1 ELSE drained
    /\ UNCHANGED <<seen, done, accepted, running, pagesProcessed, threadCount,
                   caller, failed, seeds, stops, lastOp>>

\* A spurious wakeup of cv.wait: the thread reacquires the mutex and tests
\* the predicate again.
SpuriousWake(i) ==
    /\ i \in 1..Len(workers)
    /\ workers[i].pc = "wait"
    /\ workers' = [workers EXCEPT ![i].pc = "pop"]
    /\ UNCHANGED <<queueVars, mtx, running, pagesProcessed, threadCount, caller, histVars>>

\* Mutant of crawlSucceeds: the result of the transfer is not tested.
crawlSucceedsAlways(res) == TRUE

\* Mutant of crawlSucceeds: the test of the result is inverted.
crawlSucceedsInverted(res) == ~CURLE_OK(res)

\* crawlPage, line 145: the page counts as crawled iff the transfer is CURLE_OK.
crawlSucceeds(res) == CURLE_OK(res)

\* crawlPage, lines 133-152: perform the transfer; on success count the page
\* and extract its links, otherwise do nothing.
Fetch(i, res) ==
    /\ i \in 1..Len(workers)
    /\ workers[i].pc = "fetch"
    /\ IF crawlSucceeds(res)
       THEN /\ pagesProcessed' = pagesProcessed + 1
            /\ workers' = [workers EXCEPT
                   ![i].links = Links(workers[i].url),
                   ![i].pc = IF Links(workers[i].url) = << >> THEN "sleep" ELSE "push",
                   ![i].httpError = (res = "http_error"),
                   ![i].late = IF running THEN @ ELSE @ + 1]
       ELSE /\ pagesProcessed' = pagesProcessed
            /\ workers' = [workers EXCEPT
                   ![i].pc = "sleep",
                   ![i].late = IF running THEN @ ELSE @ + 1]
    /\ failed' = IF CURLE_OK(res) THEN failed ELSE failed \cup {workers[i].url}
    /\ UNCHANGED <<queueVars, mtx, running, threadCount, caller,
                   popCount, drained, seeds, stops, lastOp>>

\* crawlPage, line 154 -> push, line 49: acquire the mutex for the next link.
PushLock(i) ==
    /\ i \in 1..Len(workers)
    /\ workers[i].pc = "push"
    /\ mtx = Free
    /\ mtx' = i
    /\ workers' = [workers EXCEPT ![i].pc = "push_cs", ![i].httpError = FALSE]
    /\ UNCHANGED <<queueVars, running, pagesProcessed, threadCount, caller, histVars>>

\* crawlPage, lines 153-155 -> push, lines 50-55: push the next link and
\* release the mutex; after the last link crawlPage returns.
PushBody(i) ==
    /\ i \in 1..Len(workers)
    /\ workers[i].pc = "push_cs"
    /\ mtx' = Free
    /\ LET rest == Tail(workers[i].links)
       IN  push(Head(workers[i].links),
                [workers EXCEPT ![i].links = rest,
                                ![i].pc = IF rest = << >> THEN "sleep" ELSE "push"])
    /\ UNCHANGED <<done, running, pagesProcessed, threadCount, caller, histVars>>

\* worker, line 167: the politeness delay, then back to the loop test.  The
\* local url is dead from here on (pop overwrites it before the next read),
\* so the model forgets it.
Sleep(i) ==
    /\ i \in 1..Len(workers)
    /\ workers[i].pc = "sleep"
    /\ workers' = [workers EXCEPT ![i].pc = "loop", ![i].url = "", ![i].httpError = FALSE]
    /\ UNCHANGED <<queueVars, mtx, running, pagesProcessed, threadCount, caller, histVars>>

WorkerStep(i) ==
    \/ WorkerLoop(i)
    \/ PopLock(i)
    \/ PopBody(i)
    \/ \E res \in FetchResults : Fetch(i, res)
    \/ PushLock(i)
    \/ PushBody(i)
    \/ Sleep(i)

\* ------------------------------------------------ WebCrawler::start / stop

Idle == [pc |-> "idle", arg |-> "", i |-> 0]

\* The caller invokes start(startUrl); line 188 stores running = true.
CallStart(startUrl) ==
    /\ caller.pc = "idle"
    /\ Len(seeds) + stops < MaxCalls
    /\ Len(workers) + threadCount <= MaxWorkers
    /\ running' = TRUE
    /\ caller' = [pc |-> "start_push", arg |-> startUrl, i |-> 0]
    /\ seeds' = Append(seeds, startUrl)
    /\ UNCHANGED <<queueVars, mtx, workers, pagesProcessed, threadCount,
                   popCount, drained, failed, stops, lastOp>>

\* start, line 189 -> push, line 49.
StartPushLock ==
    /\ caller.pc = "start_push"
    /\ mtx = Free
    /\ mtx' = Caller
    /\ caller' = [caller EXCEPT !.pc = "start_push_cs"]
    /\ UNCHANGED <<queueVars, workers, running, pagesProcessed, threadCount, histVars>>

\* start, line 189 -> push, lines 50-55.
StartPushBody ==
    /\ caller.pc = "start_push_cs"
    /\ mtx' = Free
    /\ push(caller.arg, workers)
    /\ caller' = [caller EXCEPT !.pc = "start_spawn"]
    /\ UNCHANGED <<done, running, pagesProcessed, threadCount, histVars>>

\* start, lines 191-193: one iteration of the loop creates one thread.
StartSpawn ==
    /\ caller.pc = "start_spawn"
    /\ caller.i < threadCount
    /\ workers' = Append(workers, NewThread)
    /\ caller' = [caller EXCEPT !.i = @ + 1]
    /\ UNCHANGED <<queueVars, mtx, running, pagesProcessed, threadCount, histVars>>

\* start, line 194: the loop is over and start returns.
StartReturn ==
    /\ caller.pc = "start_spawn"
    /\ caller.i >= threadCount
    /\ caller' = Idle
    /\ lastOp' = "start"
    /\ UNCHANGED <<queueVars, mtx, workers, running, pagesProcessed, threadCount,
                   popCount, drained, failed, seeds, stops>>

\* The caller invokes stop() (main, line 255, or the destructor, line 182);
\* line 198 stores running = false.
CallStop ==
    /\ caller.pc = "idle"
    /\ Len(seeds) + stops < MaxCalls
    /\ running' = FALSE
    /\ caller' = [pc |-> "stop_finish", arg |-> "", i |-> 0]
    /\ stops' = stops + 1
    /\ UNCHANGED <<queueVars, mtx, workers, pagesProcessed, threadCount,
                   popCount, drained, failed, seeds, lastOp>>

\* stop, line 199 -> finish, line 69.
StopFinishLock ==
    /\ caller.pc = "stop_finish"
    /\ mtx = Free
    /\ mtx' = Caller
    /\ caller' = [caller EXCEPT !.pc = "stop_finish_cs"]
    /\ UNCHANGED <<queueVars, workers, running, pagesProcessed, threadCount, histVars>>

\* finish, lines 70-72, with the mutex held.
finish ==
    /\ done' = finishDone
    /\ workers' = NotifyAll(workers)
    /\ UNCHANGED <<urls, seen, accepted>>

\* stop, line 199 -> finish, lines 70-72.
StopFinishBody ==
    /\ caller.pc = "stop_finish_cs"
    /\ mtx' = Free
    /\ finish
    /\ caller' = [caller EXCEPT !.pc = "stop_join", !.i = 1]
    /\ UNCHANGED <<running, pagesProcessed, threadCount, histVars>>

\* stop, lines 200-204: join returns once the thread has left worker().
StopJoin ==
    /\ caller.pc = "stop_join"
    /\ caller.i <= Len(workers)
    /\ workers[caller.i].pc = "exited"
    /\ caller' = [caller EXCEPT !.i = @ + 1]
    /\ UNCHANGED <<queueVars, mtx, workers, running, pagesProcessed, threadCount, histVars>>

\* stop, lines 205-206: clear the vector and return.
StopClear ==
    /\ caller.pc = "stop_join"
    /\ caller.i > Len(workers)
    /\ workers' = << >>
    /\ caller' = Idle
    /\ lastOp' = "stop"
    /\ UNCHANGED <<queueVars, mtx, running, pagesProcessed, threadCount,
                   popCount, drained, failed, seeds, stops>>

\* getQueueSize, line 210 -> size, line 76: the caller acquires the mutex.
CallSize ==
    /\ caller.pc = "idle"
    /\ mtx = Free
    /\ mtx' = Caller
    /\ caller' = [caller EXCEPT !.pc = "size_cs"]
    /\ UNCHANGED <<queueVars, workers, running, pagesProcessed, threadCount, histVars>>

\* size, lines 77-78: urls.size() is read and the mutex released.
SizeReturn ==
    /\ caller.pc = "size_cs"
    /\ mtx' = Free
    /\ caller' = [caller EXCEPT !.pc = "idle"]
    /\ UNCHANGED <<queueVars, workers, running, pagesProcessed, threadCount, histVars>>

CallerStep ==
    \/ SizeReturn
    \/ StartPushLock
    \/ StartPushBody
    \/ StartSpawn
    \/ StartReturn
    \/ StopFinishLock
    \/ StopFinishBody
    \/ StopJoin
    \/ StopClear

\* ------------------------------------------------------------ specification

Next ==
    \/ \E startUrl \in URLs : CallStart(startUrl)
    \/ CallStop
    \/ CallSize
    \/ CallerStep
    \/ \E i \in 1..MaxWorkers : WorkerStep(i)
    \/ \E i \in 1..MaxWorkers : SpuriousWake(i)

Spec == Init /\ [][Next]_vars

\* Fair scheduling: a thread that can take a step, or can again and again
\* (a thread contending for the mutex), eventually takes it; every transfer
\* returns.  The caller is free never to call start() or stop(), and a
\* spurious wakeup need never happen.
FairSpec ==
    /\ Spec
    /\ SF_vars(CallerStep)
    /\ \A i \in 1..MaxWorkers : SF_vars(WorkerStep(i))

\* A worker thread that has not left worker().
Live(i) == workers[i].pc # "exited"

LiveWorkers == {i \in 1..Len(workers) : Live(i)}

\* The URLs pop has returned so far.
Popped == {u \in URLs : popCount[u] > 0}

\* ------------------------------------------------------------------ claims

\* C1: over the lifetime of the queue, under every interleaving of pushes
\* (including pushes of a URL that was already popped) and pops, pop returns
\* each URL at most once; hence pagesProcessed is incremented at most once
\* per URL.
C1_PopAtMostOncePerUrl ==
    /\ \A u \in URLs : popCount[u] <= 1
    /\ pagesProcessed <= Cardinality(Popped)

\* C1 witness: a worker has crawled "a" successfully, so it has pushed the
\* link back to "a" after "a" had been popped, while a second worker is alive.
C1_Witness ==
    /\ Len(workers) = 2
    /\ \E i \in 1..Len(workers) :
          /\ workers[i].url = "a"
          /\ workers[i].pc = "sleep"
    /\ "a" \notin failed
    /\ seeds[1] = "a"
    /\ popCount["a"] = 1

\* C2 (as claimed): once done is set, no step appends to urls.
C2_NoAppendAfterFinish == [][done => Len(urls') <= Len(urls)]_vars

\* The caller is inside stop().
InStop == caller.pc \in {"stop_finish", "stop_finish_cs", "stop_join"}

\* stop() is at line 205: every join has returned.
AtStopEnd == caller.pc = "stop_join" /\ caller.i > Len(workers)

\* stop() has just returned.
StopReturned == caller.pc = "idle" /\ lastOp = "stop"

\* C3: under fair scheduling, once stop() has been called every worker
\* terminates wherever it was (blocked in pop, mid-fetch, between
\* iterations), stop() returns, and at its return no worker thread is alive.
C3_StopTerminates ==
    /\ [](AtStopEnd => LiveWorkers = {})
    /\ [](StopReturned => workers = << >>)
    /\ InStop ~> StopReturned

\* C3 witness: stop() has been called while one worker is blocked in
\* cv.wait and another one is in the middle of a transfer.
C3_Witness ==
    /\ caller.pc = "stop_finish"
    /\ \E i, j \in 1..Len(workers) :
          workers[i].pc = "wait" /\ workers[j].pc = "fetch"

\* Worker i completes a call of pop in this step (it holds the mutex inside
\* pop and leaves the critical section by returning, not by waiting).
PopReturns(i) ==
    /\ workers[i].pc = "pop_cs"
    /\ workers'[i].pc \in {"fetch", "exited"}

\* C4: after finish(), as long as urls is non-empty every pop that returns
\* returns true with the front URL and removes it (so k pending URLs are
\* handed out by the next k pops); pop returns false only once urls is empty.
C4_FinishDrains ==
    [][\A i \in 1..Len(workers) :
         (PopReturns(i) /\ done) =>
            IF urls # << >>
            THEN /\ workers'[i].pc = "fetch"
                 /\ workers'[i].url = Head(urls)
                 /\ urls' = Tail(urls)
                 /\ drained' = drained + 1
            ELSE workers'[i].pc = "exited" /\ urls' = urls]_vars

\* C4 witness: finish() found two URLs pending and two pops have returned
\* true since, before any pop returned false.
C4_Witness ==
    /\ done
    /\ stops = 1
    /\ caller.pc = "stop_join"
    /\ drained = 2
    /\ Len(workers) = 2
    /\ \A i \in 1..Len(workers) : workers[i].pc = "fetch"

\* Some consumer is on its way to test the queue: a worker that is not
\* blocked in cv.wait, or start() that is about to create the workers.
SomeConsumerAwake ==
    \/ \E i \in 1..Len(workers) : workers[i].pc \notin {"wait", "exited"}
    \/ caller.pc = "start_spawn"

InPending(u) == \E k \in 1..Len(urls) : urls[k] = u

\* C5: on an open queue of a running crawler, URLs pushed concurrently are
\* never left behind with every consumer blocked in cv.wait, and under fair
\* scheduling each pending URL is returned by pop, exactly once, unless the
\* queue is closed first.
C5_NoLostWakeup ==
    /\ []((running /\ ~done /\ urls # << >>) => SomeConsumerAwake)
    /\ \A u \in URLs : InPending(u) ~> (popCount[u] = 1 \/ done)

\* C5 witness: on an open queue one worker, still pushing the links of "a",
\* has pushed "b" and the other worker has been handed "b" by pop.
C5_Witness ==
    /\ running /\ ~done
    /\ \E i, j \in 1..Len(workers) :
          /\ workers[i].url = "a" /\ workers[i].pc = "push"
          /\ workers[j].url = "b" /\ workers[j].pc = "fetch"

\* C6 (as claimed): whatever start() calls are made without a stop() in
\* between, the live worker threads never number more than threadCount.
C6_NoDuplicateWorkers == Cardinality(LiveWorkers) <= threadCount

\* start() has just seeded the queue (line 189) and has created no thread yet.
StartSeeded == caller.pc = "start_spawn" /\ caller.i = 0

\* C7 (as claimed): a start(seed) that follows a stop() begins with a fresh
\* queue: open, with the new seed as the only discovered and pending URL.
C7_RestartIsFresh ==
    (StartSeeded /\ lastOp = "stop") =>
        /\ ~done
        /\ seen = {caller.arg}
        /\ urls = <<caller.arg>>

\* One start(seed), on a seed whose page has no links and whose transfer does
\* not fail, followed by stop(), which has run to line 205 or has returned.
ZeroLinkCrawlStopped ==
    /\ Len(seeds) = 1
    /\ Links(seeds[1]) = << >>
    /\ seeds[1] \notin failed
    /\ lastOp # "none"
    /\ AtStopEnd \/ StopReturned

\* C8 (as claimed): after that stop() all workers have terminated and
\* pagesProcessed is 1, whenever stop() was called.
C8_ZeroLinkSeedCountsOne ==
    ZeroLinkCrawlStopped => (LiveWorkers = {} /\ pagesProcessed = 1)

\* C8 (amended): after that stop() all workers have terminated and
\* pagesProcessed is 1 if a worker popped the seed and 0 if every worker read
\* running = false before it called pop.
C8_ZeroLinkSeedCountsPopped ==
    ZeroLinkCrawlStopped =>
        /\ LiveWorkers = {}
        /\ pagesProcessed = popCount[seeds[1]]
        /\ pagesProcessed <= 1
        /\ urls = IF popCount[seeds[1]] = 1 THEN << >> ELSE <<seeds[1]>>

\* C8 witness: start("c") with two threads, then stop(), has returned with
\* the seed crawled.
C8_Witness ==
    /\ ZeroLinkCrawlStopped
    /\ StopReturned
    /\ threadCount = 2
    /\ stops = 1
    /\ pagesProcessed = 1

\* What a caller can observe of the crawler.
Observable == <<urls, seen, done, running, workers, pagesProcessed>>

\* The caller's finish() runs its critical section in this step.
FinishRuns == caller.pc = "stop_finish_cs" /\ caller'.pc = "stop_join"

\* C9: a finish() on a queue that an earlier finish() closed changes nothing,
\* and no step of a stop() that follows a returned stop() (in particular the
\* second of two stops of a crawler never started) changes urls, seen, done,
\* running, the worker set or pagesProcessed.
C9_CloseIdempotent ==
    [][/\ (FinishRuns /\ done) => Observable' = Observable
       /\ (lastOp = "stop" /\ (InStop \/ InStop')) => Observable' = Observable]_vars

\* C9 witness: a second stop(), called after a crawl was stopped, has run
\* finish() again.
C9_Witness ==
    /\ lastOp = "stop"
    /\ caller.pc = "stop_join"
    /\ Len(seeds) > 0
    /\ pagesProcessed > 0

\* Worker i's transfer ends in this step with a result that is not CURLE_OK.
FetchFails(i) ==
    /\ workers[i].pc = "fetch"
    /\ workers'[i].pc # "fetch"
    /\ failed' # failed

\* C10: a failed transfer leaves pagesProcessed and the queue unchanged and
\* sends the worker on to the politeness delay and the next loop test; when
\* the only seed's transfer has failed, pagesProcessed is 0 and urls is empty.
C10_FailedFetchChangesNothing ==
    /\ [][\A i \in 1..Len(workers) :
            FetchFails(i) =>
               /\ pagesProcessed' = pagesProcessed
               /\ <<urls, seen, done>>' = <<urls, seen, done>>
               /\ workers'[i] = [workers[i] EXCEPT !.pc = "sleep",
                                                    !.late = workers'[i].late]]_vars
    /\ []((Len(seeds) = 1 /\ seeds[1] \in failed) =>
            (pagesProcessed = 0 /\ urls = << >> /\ seen = {seeds[1]}))

\* C10 witness: the only seed's transfer failed, stop() was called and has
\* returned with both workers joined.
C10_Witness ==
    /\ Len(seeds) = 1
    /\ seeds[1] \in failed
    /\ threadCount = 2
    /\ StopReturned
    /\ pagesProcessed = 0

\* Worker i's transfer returns in this step.
FetchReturns(i) == workers[i].pc = "fetch" /\ workers'[i].pc # "fetch"

\* C11 (as claimed): a transfer that completes with a non-success HTTP
\* status counts as a failed fetch: pagesProcessed is not incremented and the
\* worker goes on without any link of the body to push.
C11_HttpErrorIsFailure ==
    [][\A i \in 1..Len(workers) :
         (FetchReturns(i) /\ workers'[i].httpError) =>
            /\ pagesProcessed' = pagesProcessed
            /\ workers'[i].pc = "sleep"
            /\ workers'[i].links = << >>]_vars

\* Worker i returns from worker() in this step.
WorkerExits(i) == workers[i].pc # "exited" /\ workers'[i].pc = "exited"

\* C12 (as claimed): a worker leaves its loop only when pop returns false,
\* that is only with the queue closed and urls empty.
C12_ExitOnlyOnPopFalse ==
    [][\A i \in 1..Len(workers) :
         WorkerExits(i) =>
            (workers[i].pc = "pop_cs" /\ done /\ urls = << >>)]_vars

\* C12 (amended): a worker leaves its loop only at the loop test with
\* running = false, whatever is pending, or when pop returns false, which
\* happens only with the queue closed and urls empty.
C12_ExitOnStopOrPopFalse ==
    [][\A i \in 1..Len(workers) :
         WorkerExits(i) =>
            \/ workers[i].pc = "loop" /\ ~running
            \/ workers[i].pc = "pop_cs" /\ done /\ urls = << >>]_vars

\* C12 witness: a worker has left its loop at the loop test (the queue is
\* not closed yet) while a URL is pending.
C12_Witness ==
    /\ ~done
    /\ urls # << >>
    /\ \E i \in 1..Len(workers) : workers[i].pc = "exited"

\* Worker i's transfer returns in this step as a successful fetch: no
\* transport error and no non-success HTTP status.
FetchSucceeds(i) ==
    /\ FetchReturns(i)
    /\ failed' = failed
    /\ ~workers'[i].httpError

\* C13 (as claimed): pagesProcessed changes only by steps of +1, and it is
\* incremented exactly by the steps in which a fetch completes successfully,
\* so it always equals the number of successful fetches so far.
C13_CountsSuccessfulFetches ==
    [][/\ pagesProcessed' # pagesProcessed => pagesProcessed' = pagesProcessed + 1
       /\ pagesProcessed' # pagesProcessed <=>
             \E i \in 1..Len(workers) : FetchSucceeds(i)]_vars

\* C14: every pending URL is in seen and is pending once; seen only grows,
\* by one URL at a time, in the very step that appends that URL to urls, and
\* urls grows in no other step.
C14_PendingWithinSeen ==
    /\ [](\A k \in 1..Len(urls) :
            /\ urls[k] \in seen
            /\ \A j \in 1..Len(urls) : urls[j] = urls[k] => j = k)
    /\ [][/\ seen \subseteq seen'
           /\ seen' # seen =>
                 \E u \in URLs \ seen :
                     seen' = seen \cup {u} /\ urls' = Append(urls, u)
           /\ Len(urls') > Len(urls) => seen' # seen]_vars

\* C14 witness: the seed has been popped and stays in seen, its page has
\* been crawled and the two URLs it links to are pending.
C14_Witness ==
    /\ Len(urls) = 2
    /\ Cardinality(seen) = 3
    /\ Cardinality(Popped) = 1
    /\ pagesProcessed = 1

\* C15: a pop that finds urls empty and the queue open blocks in cv.wait; a
\* pop returns false only with the queue closed and urls empty, and then
\* without blocking, for every caller from then on (done is never reset); a
\* pop returns true only with the front URL, which it removes.
C15_PopContract ==
    [][/\ done => done'
       /\ \A i \in 1..Len(workers) :
            (workers[i].pc = "pop_cs" /\ workers'[i].pc # "pop_cs") =>
               IF urls # << >>
               THEN /\ workers'[i].pc = "fetch"
                    /\ workers'[i].url = Head(urls)
                    /\ urls' = Tail(urls)
               ELSE /\ urls' = urls
                    /\ workers'[i].pc = IF done THEN "exited" ELSE "wait"]_vars

\* C15 witness: on a closed, empty queue of a running crawler both workers
\* have called pop, one after the other got false, and both have left.
C15_Witness ==
    /\ running
    /\ done
    /\ urls = << >>
    /\ Len(workers) = 2
    /\ \A i \in 1..Len(workers) : workers[i].pc = "exited"

\* C18: until stop() is called for the first time the queue stays open, no
\* worker thread terminates, and on an empty queue a worker inside pop stays
\* inside pop: the crawl does not end by itself.
C18_NoExitBeforeStop ==
    /\ [](stops = 0 =>
            /\ ~done
            /\ workers # << >> => running
            /\ \A i \in 1..Len(workers) : Live(i))
    /\ [][(stops' = 0 /\ urls = << >>) =>
            \A i \in 1..Len(workers) :
               workers[i].pc \in {"pop", "pop_cs", "wait"} =>
                  workers'[i].pc \in {"pop", "pop_cs", "wait"}]_vars

\* C18 witness: before any stop() the crawl has run out of URLs: every URL
\* has been popped and both workers are blocked in cv.wait.
C18_Witness ==
    /\ stops = 0
    /\ caller.pc = "idle"
    /\ urls = << >>
    /\ Popped = URLs
    /\ Len(workers) = 2
    /\ \A i \in 1..Len(workers) : workers[i].pc = "wait"

\* The workers that hold URL u: they got it from pop and their transfer of
\* it has not returned.
Holders(u) ==
    {i \in 1..Len(workers) : workers[i].pc = "fetch" /\ workers[i].url = u}

InFlight == {u \in URLs : Holders(u) # {}}

\* The URLs whose fetch is over, successfully or not.
Finished == {u \in Popped : Holders(u) = {}}

\* C19: every URL of seen is in exactly one place: pending (once), held by
\* exactly one worker, or finished; no other URL is anywhere.  Hence
\* |seen| = |urls| + in flight + finished and
\* pagesProcessed <= |seen| - |urls|.
C19_Conservation ==
    /\ \A u \in URLs :
          /\ u \in seen <=> (InPending(u) \/ u \in InFlight \/ u \in Finished)
          /\ ~(InPending(u) /\ u \in Popped)
          /\ Cardinality(Holders(u)) <= 1
          /\ u \in InFlight => popCount[u] = 1
    /\ Cardinality(seen) = Len(urls) + Cardinality(InFlight) + Cardinality(Finished)
    /\ pagesProcessed <= Cardinality(Finished)
    /\ pagesProcessed <= Cardinality(seen) - Len(urls)

\* C19 witness: one URL is pending, one is held by a worker and one is
\* finished, its page crawled.
C19_Witness ==
    /\ Len(urls) = 1
    /\ Cardinality(InFlight) = 1
    /\ Cardinality(Finished) = 1
    /\ pagesProcessed = 1

\* Worker i's pop returns true in this step.
PopReturnsTrue(i) == workers[i].pc = "pop_cs" /\ workers'[i].pc = "fetch"

\* The position, in the order of acceptance, of the URL at the front of urls.
FrontPosition == Len(accepted) - Len(urls) + 1

\* C16: urls is the tail of the acceptance order, and a pop returns the URL
\* at FrontPosition: every URL accepted before it has already been returned
\* by a pop, and no URL accepted after it has.
C16_Fifo ==
    /\ [](/\ Len(urls) <= Len(accepted)
           /\ urls = SubSeq(accepted, FrontPosition, Len(accepted)))
    /\ [][\A i \in 1..Len(workers) :
            PopReturnsTrue(i) =>
               /\ workers'[i].url = accepted[FrontPosition]
               /\ \A j \in 1..Len(accepted) :
                     IF j < FrontPosition THEN popCount[accepted[j]] = 1
                     ELSE popCount[accepted[j]] = 0]_vars

\* C16 witness: with two workers, the seed's two links were pending in the
\* order of the page and a pop has returned the first of them.
C16_Witness ==
    /\ accepted = <<"b", "a", "c">>
    /\ urls = <<"c">>
    /\ Len(workers) = 2
    /\ \E i \in 1..Len(workers) : workers[i].pc = "fetch" /\ workers[i].url = "a"

\* The thread that holds the mutex is inside push, pop, finish or size.
HolderInQueueOp ==
    /\ mtx = Caller => caller.pc \in {"start_push_cs", "stop_finish_cs", "size_cs"}
    /\ \A i \in 1..Len(workers) : mtx = i => workers[i].pc \in {"pop_cs", "push_cs"}

\* Worker i is inside crawlPage before or at the transfer, or in the
\* politeness delay.
FetchingOrSleeping(i) == workers[i].pc \in {"fetch", "sleep"}

\* C17: the holder of the mutex, if any, is a live thread inside push, pop,
\* finish or size; in particular a worker that is fetching or sleeping does
\* not hold it.
C17_NoLockWhileFetching ==
    /\ mtx \in {Free, Caller} \cup 1..Len(workers)
    /\ HolderInQueueOp
    /\ \A i \in 1..Len(workers) : FetchingOrSleeping(i) => mtx # i

\* C17 witness: while one worker is mid-fetch and the other sleeps, the
\* caller is inside size() holding the mutex.
C17_Witness ==
    /\ mtx = Caller
    /\ caller.pc = "size_cs"
    /\ \E i, j \in 1..Len(workers) :
          workers[i].pc = "fetch" /\ workers[j].pc = "sleep"

RECURSIVE SumLate(_)
\* The number of transfers performed by the threads ws while running was false.
SumLate(ws) == IF ws = << >> THEN 0 ELSE Head(ws).late + SumLate(Tail(ws))

\* C20: after stop() has stored running = false each worker performs at most
\* one more transfer, and at most threadCount transfers are performed in all.
C20_BoundedWorkAfterStop ==
    /\ \A i \in 1..Len(workers) : workers[i].late <= 1
    /\ SumLate(workers) <= threadCount

====
